---- MODULE Spec2Model ----
(***************************************************************************)
(* Model of the authentication / session subsystem of gabb:                *)
(*   gabb/auth.py     GabbAuth    (login, refresh, request decoration)     *)
(*   gabb/session.py  GabbSession (base URL selection, one-shot flag)      *)
(* One GabbSession with its GabbAuth is modelled, used sequentially.       *)
(* The vendor server is the environment: every login / refresh response    *)
(* is drawn from the set Responses, every API call outcome from Outcomes.  *)
(***************************************************************************)
EXTENDS Integers, Sequences, FiniteSets, TLC

\* ------------------------------------------------------------------ bounds
\* The wall clock runs over 0..MaxTime.
MaxTime == 1
\* Number of session.request calls in one behaviour.
MaxRequests == 2

\* ------------------------------------------------------------ value spaces
\* A key that is absent from the JSON data object.
Missing == "<no key>"
\* The class-level default "" of _access_token / _refresh_token.
EmptyStr == ""

\* Token strings are opaque to the client: two distinct ones tell a
\* replaced token from the one that replaced it.
Tokens == {"tokA", "tokB"}
Times == 0..MaxTime

\* Result of dateutil's parser.parse on an expDate carrying a UTC offset.
Aware(t) == [kind |-> "aware", t |-> t]
\* Result of parser.parse on an expDate without offset: a naive datetime.
Naive == [kind |-> "naive", t |-> 0]
\* An expDate string parser.parse rejects.
Unparseable == [kind |-> "unparseable", t |-> 0]
\* No expDate key in the data object.
NoExpDate == [kind |-> "missing", t |-> 0]
\* The class-level default "" of _exp_date.
EmptyExp == [kind |-> "str", t |-> 0]

ExpFields == {Aware(t) : t \in Times} \cup {Naive, Unparseable, NoExpDate}

\* requests.post raised instead of returning a response.
Unreachable ==
    [reached |-> FALSE, status |-> 0, json |-> FALSE, accessToken |-> Missing,
     refreshToken |-> Missing, expDate |-> NoExpDate]

\* A response whose body is not JSON.
NonJson(s) ==
    [reached |-> TRUE, status |-> s, json |-> FALSE, accessToken |-> Missing,
     refreshToken |-> Missing, expDate |-> NoExpDate]

\* HTTP statuses of the token endpoints: a success and a non-success one.
Statuses == {200, 401}

\* Every answer the auth / refresh endpoint can give to one POST.
Responses ==
    {Unreachable}
    \cup {NonJson(s) : s \in Statuses}
    \cup [reached : {TRUE}, status : Statuses, json : {TRUE},
          accessToken : Tokens \cup {Missing},
          refreshToken : Tokens \cup {Missing},
          expDate : ExpFields]

\* No login / refresh response received yet.
NoResponse ==
    [reached |-> FALSE, status |-> -1, json |-> FALSE, accessToken |-> Missing,
     refreshToken |-> Missing, expDate |-> NoExpDate]

\* What happens to an API request once it is handed to the transport.
Outcomes == {"ok", "error_response", "transport_error"}

\* The three token attributes of a GabbAuth instance before the first login.
EmptyTok ==
    [access_token |-> EmptyStr, refresh_token |-> EmptyStr, exp_date |-> EmptyExp]

\* f"Bearer {token}"
Bearer(token) == [scheme |-> "Bearer", token |-> token]
\* A request without Authorization header.
NoHeader == [scheme |-> "none", token |-> Missing]

\* ----------------------------------------------------------------- headers
\* Headers are sets of <<name, value>> pairs, one pair a name.
\* GabbAuth._required_headers and GabbClient._required_headers (the same six).
_required_headers ==
    {<<"X-Accept-Language", "en-US">>, <<"X-Accept-Offset", "-5.000000">>,
     <<"Accept-Version", "1.0">>, <<"User-Agent", "FiLIP-iOS">>,
     <<"X-Accept-Version", "1.0">>, <<"Content-Type", "application/json">>}

\* The headers a new requests.Session starts with.
DefaultSessionHeaders ==
    {<<"User-Agent", "python-requests">>, <<"Accept-Encoding", "gzip, deflate">>,
     <<"Accept", "*/*">>, <<"Connection", "keep-alive">>}

\* dict.update: the pairs of new replace the pairs of h with the same name.
HeadersUpdate(h, new) ==
    {pair \in h : \A n \in new : n[1] # pair[1]} \cup new

\* The headers requests sends for a call: the session's, overridden by the
\* ones given to the call.
SentHeaders(session, given) == HeadersUpdate(session, given)

\* Variant of SessionHeadersAfterInit without the update.
session_headers_not_updated(defaults, required) == defaults

\* self._session.headers.update(self._required_headers) of GabbClient.__init__
SessionHeadersAfterInit(defaults, required) == HeadersUpdate(defaults, required)

\* requests.post(url, headers=self._required_headers, ...) of GabbAuth: a
\* session of its own with the given headers.
TokenPostHeaders == SentHeaders(DefaultSessionHeaders, _required_headers)

\* ------------------------------------------------------------------- state
VARIABLES
    phase,          \* "unbuilt" | "ready" | "failed": GabbSession construction
    _access_token,  \* GabbAuth._access_token
    _refresh_token, \* GabbAuth._refresh_token
    _exp_date,      \* GabbAuth._exp_date
    use_alt_base_url_next_request,  \* GabbSession flag
    base_url,       \* GabbSession.base_url
    alt_base_url,   \* GabbSession.alt_base_url
    headers,        \* GabbSession.headers
    now,            \* datetime.datetime.now(datetime.timezone.utc)
    loginCalls,     \* POSTs made to auth_url so far
    refreshCalls,   \* POSTs made to refresh_url so far
    lastPost,       \* url and payload of the latest POST to a token endpoint
    lastResp,       \* the response to that POST
    authErr,        \* exception raised by the latest login / refresh ("none")
    lastGood,       \* token fields set by the latest login / refresh that did not raise
    nreq,           \* session.request calls so far
    setsSince,      \* the flag was set "never" | "once" | "several" times since the latest request
    lastReq,        \* what the latest session.request call did
    prevReq,        \* what the request call before it did
    mode,           \* "sequential" | "concurrent": how the callers use the client
    callers,        \* per caller: the client operation it is in and its next step
    lastOp,         \* the client operation that returned or raised last
    opBase,         \* per kind of client operation: the base its latest request used
    call,           \* the latest call that prepared a payload: arguments and result
    class_attrs,    \* the attributes of the class GabbAuth
    instances,      \* per GabbAuth object: the attributes of its own
    actor           \* the GabbAuth object the latest login or hook call was on

vars ==
    <<phase, _access_token, _refresh_token, _exp_date,
      use_alt_base_url_next_request, base_url, alt_base_url, headers, now,
      loginCalls,
      refreshCalls, lastPost,
      lastResp, authErr, lastGood, nreq, setsSince, lastReq, prevReq,
      mode, callers, lastOp, opBase, call, class_attrs, instances, actor>>

\* The class GabbAuth and its objects.
instanceVars == <<class_attrs, instances, actor>>

\* The variables of the callers of GabbClient and of GabbAuth objects.
clientVars == <<mode, callers, lastOp, opBase, call, instanceVars>>

\* The TokenState of the authenticator.
Tok ==
    [access_token |-> _access_token, refresh_token |-> _refresh_token,
     exp_date |-> _exp_date]

\* The token fields a response carries.
FieldsOf(response) ==
    [access_token |-> response.accessToken, refresh_token |-> response.refreshToken,
     exp_date |-> response.expDate]

\* ------------------------------------------------------------ GabbAuth code
\* Variant of _update_tokens_from_response that stores the refresh token
\* before it reads accessToken.
update_tokens_refresh_first(tok, response) ==
    IF ~response.json
    THEN [tok |-> tok, err |-> "JSONDecodeError"]
    ELSE IF response.refreshToken = Missing
    THEN [tok |-> tok, err |-> "KeyError"]
    ELSE LET t1 == [tok EXCEPT !.refresh_token = response.refreshToken] IN
         IF response.accessToken = Missing
         THEN [tok |-> t1, err |-> "KeyError"]
         ELSE LET t2 == [t1 EXCEPT !.access_token = response.accessToken] IN
              IF response.expDate.kind = "missing"
              THEN [tok |-> t2, err |-> "KeyError"]
              ELSE IF response.expDate.kind = "unparseable"
              THEN [tok |-> t2, err |-> "ParserError"]
              ELSE [tok |-> [t2 EXCEPT !.exp_date = response.expDate],
                    err |-> "none"]

\* _update_tokens_from_response: response.json(), then three assignments in
\* source order; a missing key or a parse error raises out of the middle.
_update_tokens_from_response(tok, response) ==
    IF ~response.json
    THEN [tok |-> tok, err |-> "JSONDecodeError"]
    ELSE IF response.accessToken = Missing
    THEN [tok |-> tok, err |-> "KeyError"]
    ELSE LET t1 == [tok EXCEPT !.access_token = response.accessToken] IN
         IF response.refreshToken = Missing
         THEN [tok |-> t1, err |-> "KeyError"]
         ELSE LET t2 == [t1 EXCEPT !.refresh_token = response.refreshToken] IN
              IF response.expDate.kind = "missing"
              THEN [tok |-> t2, err |-> "KeyError"]
              ELSE IF response.expDate.kind = "unparseable"
              THEN [tok |-> t2, err |-> "ParserError"]
              ELSE [tok |-> [t2 EXCEPT !.exp_date = response.expDate],
                    err |-> "none"]

\* Variant of PostAndUpdate that forgets the refresh token when the endpoint
\* cannot be reached.
post_and_update_forget_on_failure(tok, response) ==
    IF ~response.reached
    THEN [tok |-> [tok EXCEPT !.refresh_token = EmptyStr],
          err |-> "ConnectionError"]
    ELSE _update_tokens_from_response(tok, response)

\* requests.post(url, ...) followed by _update_tokens_from_response; the
\* status of the response is not looked at.
PostAndUpdate(tok, response) ==
    IF ~response.reached
    THEN [tok |-> tok, err |-> "ConnectionError"]
    ELSE _update_tokens_from_response(tok, response)

\* Payload of the login POST.
LoginPost ==
    [url |-> "auth_url", keys |-> {"appBuild", "username", "password"},
     refreshToken |-> Missing, headers |-> TokenPostHeaders]

\* Variant of RefreshPost made with the session, whose request joins the url
\* to a base.
refresh_post_through_session(tok) ==
    [url |-> "session", keys |-> {"refreshToken"},
     refreshToken |-> tok.refresh_token, headers |-> TokenPostHeaders]

\* Payload of the refresh POST: json.dumps({"refreshToken": self._refresh_token}).
RefreshPost(tok) ==
    [url |-> "refresh_url", keys |-> {"refreshToken"},
     refreshToken |-> tok.refresh_token, headers |-> TokenPostHeaders]

\* No POST made yet.
NoPost == [url |-> "none", keys |-> {}, refreshToken |-> Missing, headers |-> {}]

\* _new_authentication
_new_authentication(tok, response) ==
    LET r == PostAndUpdate(tok, response) IN
    [tok |-> r.tok, err |-> r.err, post |-> LoginPost]

\* _refresh_authentication
_refresh_authentication(tok, response) ==
    LET r == PostAndUpdate(tok, response) IN
    [tok |-> r.tok, err |-> r.err, post |-> RefreshPost(tok)]

\* datetime comparison of an aware with a naive datetime raises TypeError.
Comparable(exp) == exp.kind = "aware"

\* Variant of _token_expired that counts a token expiring now as expired.
token_expired_inclusive(exp, t) == exp.t <= t

\* _token_expired
_token_expired(exp, t) == exp.t < t

\* Variant of __call__ that refreshes a second time with the answer it got.
call_refresh_twice(tok, t, response) ==
    IF ~Comparable(tok.exp_date)
    THEN [tok |-> tok, err |-> "TypeError", events |-> <<>>, posts |-> <<>>,
          header |-> NoHeader]
    ELSE IF _token_expired(tok.exp_date, t)
    THEN LET r1 == _refresh_authentication(tok, response)
             r == _refresh_authentication(r1.tok, response) IN
         IF r.err # "none"
         THEN [tok |-> r.tok, err |-> r.err,
               events |-> <<"post_refresh", "post_refresh">>,
               posts |-> <<r1.post, r.post>>, header |-> NoHeader]
         ELSE [tok |-> r.tok, err |-> "none",
               events |-> <<"post_refresh", "post_refresh", "set_header">>,
               posts |-> <<r1.post, r.post>>,
               header |-> Bearer(r.tok.access_token)]
    ELSE [tok |-> tok, err |-> "none", events |-> <<"set_header">>,
          posts |-> <<>>, header |-> Bearer(tok.access_token)]

\* Variant of __call__ that logs in again when the refresh raised.
call_login_fallback(tok, t, response) ==
    IF ~Comparable(tok.exp_date)
    THEN [tok |-> tok, err |-> "TypeError", events |-> <<>>, posts |-> <<>>,
          header |-> NoHeader]
    ELSE IF _token_expired(tok.exp_date, t)
    THEN LET r == _refresh_authentication(tok, response) IN
         IF r.err # "none"
         THEN LET l == _new_authentication(r.tok, response) IN
              [tok |-> l.tok, err |-> l.err,
               events |-> <<"post_refresh", "post_auth">>,
               posts |-> <<r.post, l.post>>, header |-> NoHeader]
         ELSE [tok |-> r.tok, err |-> "none",
               events |-> <<"post_refresh", "set_header">>,
               posts |-> <<r.post>>, header |-> Bearer(r.tok.access_token)]
    ELSE [tok |-> tok, err |-> "none", events |-> <<"set_header">>,
          posts |-> <<>>, header |-> Bearer(tok.access_token)]

\* Variant of __call__ that builds the header before it refreshes.
call_header_first(tok, t, response) ==
    IF ~Comparable(tok.exp_date)
    THEN [tok |-> tok, err |-> "TypeError", events |-> <<>>, posts |-> <<>>,
          header |-> NoHeader]
    ELSE IF _token_expired(tok.exp_date, t)
    THEN LET r == _refresh_authentication(tok, response) IN
         IF r.err # "none"
         THEN [tok |-> r.tok, err |-> r.err,
               events |-> <<"set_header", "post_refresh">>,
               posts |-> <<r.post>>, header |-> Bearer(tok.access_token)]
         ELSE [tok |-> r.tok, err |-> "none",
               events |-> <<"set_header", "post_refresh">>,
               posts |-> <<r.post>>, header |-> Bearer(tok.access_token)]
    ELSE [tok |-> tok, err |-> "none", events |-> <<"set_header">>,
          posts |-> <<>>, header |-> Bearer(tok.access_token)]

\* Variant of __call__ that catches the exception of the refresh and goes on
\* with the token it has.
call_ignore_refresh_error(tok, t, response) ==
    IF ~Comparable(tok.exp_date)
    THEN [tok |-> tok, err |-> "TypeError", events |-> <<>>, posts |-> <<>>,
          header |-> NoHeader]
    ELSE IF _token_expired(tok.exp_date, t)
    THEN LET r == _refresh_authentication(tok, response) IN
         [tok |-> r.tok, err |-> "none",
          events |-> <<"post_refresh", "set_header">>,
          posts |-> <<r.post>>, header |-> Bearer(r.tok.access_token)]
    ELSE [tok |-> tok, err |-> "none", events |-> <<"set_header">>,
          posts |-> <<>>, header |-> Bearer(tok.access_token)]

\* GabbAuth.__call__: the events list is the order of the hook's effects;
\* posts is the list of POSTs it made.
__call__(tok, t, response) ==
    IF ~Comparable(tok.exp_date)
    THEN [tok |-> tok, err |-> "TypeError", events |-> <<>>, posts |-> <<>>,
          header |-> NoHeader]
    ELSE IF _token_expired(tok.exp_date, t)
    THEN LET r == _refresh_authentication(tok, response) IN
         IF r.err # "none"
         THEN [tok |-> r.tok, err |-> r.err, events |-> <<"post_refresh">>,
               posts |-> <<r.post>>, header |-> NoHeader]
         ELSE [tok |-> r.tok, err |-> "none",
               events |-> <<"post_refresh", "set_header">>,
               posts |-> <<r.post>>, header |-> Bearer(r.tok.access_token)]
    ELSE [tok |-> tok, err |-> "none", events |-> <<"set_header">>,
          posts |-> <<>>, header |-> Bearer(tok.access_token)]

\* The hook POSTs to a token endpoint, so the server gives an answer; whether
\* it POSTs is decided before any answer is read.
Posts(tok, t) == Len(__call__(tok, t, NoResponse).posts) > 0

\* ---------------------------------------------------------------- URL code
\* A URL as urlparse takes it apart: scheme, host, and the path split at "/"
\* ("/v2/" is <<"", "v2", "">>, "contact" is <<"contact">>, "" is <<"">>).
Url(scheme, netloc, path) == [scheme |-> scheme, netloc |-> netloc, path |-> path]

\* None: the default of base_url / alt_base_url.
NoUrl == Url("", "", <<>>)

\* urllib.parse.uses_relative and uses_netloc, as far as the schemes here go.
UsesRelative == {"", "http", "https", "ftp"}
UsesNetloc == {"", "http", "https", "ftp"}

\* The default base_url of GabbClient: "https://api.myfilip.com/".
DefaultBaseUrl == Url("https", "api.myfilip.com", <<"", "">>)

\* The reference GabbClient.__init__ joins to its base: "v2/".
V2Ref == Url("", "", <<"v2", "">>)

\* Paths of GabbClient operations: "contact" and "safezone/list".
ContactRef == Url("", "", <<"contact">>)
SafezoneListRef == Url("", "", <<"safezone", "list">>)

\* segments[1:-1] = filter(None, segments[1:-1])
DropEmptyInner(segments) ==
    LET n == Len(segments) IN
    IF n < 3 THEN segments
    ELSE <<segments[1]>>
         \o SelectSeq(SubSeq(segments, 2, n - 1), LAMBDA seg : seg # "")
         \o <<segments[n]>>

\* The loop of urljoin that takes "." and ".." out of the segments.
RECURSIVE RemoveDots(_, _)
RemoveDots(segments, resolved) ==
    IF segments = <<>> THEN resolved
    ELSE LET seg == Head(segments) IN
         IF seg = ".."
         THEN RemoveDots(Tail(segments),
                         IF resolved = <<>> THEN resolved
                         ELSE SubSeq(resolved, 1, Len(resolved) - 1))
         ELSE IF seg = "."
         THEN RemoveDots(Tail(segments), resolved)
         ELSE RemoveDots(Tail(segments), Append(resolved, seg))

\* Variant of urljoin that puts the reference's path behind the base's path.
url_concat(base, url) ==
    Url(base.scheme, base.netloc,
        SubSeq(base.path, 1, Len(base.path) - 1)
        \o <<base.path[Len(base.path)] \o url.path[1]>>
        \o Tail(url.path))

\* urllib.parse.urljoin(base, url), as GabbSession.request and
\* GabbClient.__init__ call it.
urljoin(base, url) ==
    IF base = NoUrl THEN url
    ELSE IF url = Url("", "", <<"">>) THEN base
    ELSE LET scheme == IF url.scheme = "" THEN base.scheme ELSE url.scheme IN
         IF scheme # base.scheme \/ scheme \notin UsesRelative
         THEN Url(scheme, url.netloc, url.path)
         ELSE IF scheme \in UsesNetloc /\ url.netloc # ""
         THEN Url(scheme, url.netloc, url.path)
         ELSE IF url.path = <<"">>
         THEN Url(scheme, base.netloc, base.path)
         ELSE LET base_parts ==
                      IF base.path[Len(base.path)] # ""
                      THEN SubSeq(base.path, 1, Len(base.path) - 1)
                      ELSE base.path
                  segments ==
                      IF url.path[1] = "" /\ Len(url.path) > 1
                      THEN url.path
                      ELSE DropEmptyInner(base_parts \o url.path)
                  last == segments[Len(segments)]
                  resolved ==
                      IF last \in {".", ".."}
                      THEN Append(RemoveDots(segments, <<>>), "")
                      ELSE RemoveDots(segments, <<>>)
              IN Url(scheme, base.netloc,
                     IF resolved \in {<<>>, <<"">>} THEN <<"", "">> ELSE resolved)

\* base_url_v2 = urljoin(base_url, "v2/") of GabbClient.__init__
base_url_v2(base) == urljoin(base, V2Ref)

\* --------------------------------------------------------- GabbSession code
\* Variant of SelectBase with the two branches exchanged.
select_base_swapped(flag) == IF flag THEN "base_url" ELSE "alt_base_url"

\* The attribute GabbSession.request joins the path to.
SelectBase(flag) == IF flag THEN "alt_base_url" ELSE "base_url"

\* Variant of FlagAfterRequest that leaves the flag as it is.
flag_kept(flag) == flag

\* The flag once GabbSession.request has picked the base: cleared in the
\* branch that used the alternate base, untouched in the other.
FlagAfterRequest(flag) == IF flag THEN FALSE ELSE flag

\* The value of the attribute SelectBase names.
BaseValue(base, primary, alternate) ==
    IF base = "alt_base_url" THEN alternate ELSE primary

\* ---------------------------------------------------------- request records
NoReq ==
    [base |-> "none", sets |-> "never", now |-> 0, events |-> <<>>,
     header |-> NoHeader, err |-> "none", outcome |-> "none",
     path |-> NoUrl, url |-> NoUrl, headers |-> {}]

\* What is remembered of the request before the latest one.
Summary(req) == [base |-> req.base, outcome |-> req.outcome]

\* Number of POSTs to `url` among posts.
CountPosts(posts, url) == Cardinality({i \in DOMAIN posts : posts[i].url = url})

\* ------------------------------------------------------------------ actions
\* ------------------------------------------- prepare_params_for_api_call
\* A str is the sequence of its characters, a dict the sequence of its
\* <<key, value>> items in insertion order, a list a sequence.
MaxKeyLen == 3

None == "<None>"

LowerLetters ==
    <<"a", "b", "c", "d", "e", "f", "g", "h", "i", "j", "k", "l", "m",
      "n", "o", "p", "q", "r", "s", "t", "u", "v", "w", "x", "y", "z">>
UpperLetters ==
    <<"A", "B", "C", "D", "E", "F", "G", "H", "I", "J", "K", "L", "M",
      "N", "O", "P", "Q", "R", "S", "T", "U", "V", "W", "X", "Y", "Z">>

IsLower(c) == \E i \in DOMAIN LowerLetters : LowerLetters[i] = c
IsUpper(c) == \E i \in DOMAIN UpperLetters : UpperLetters[i] = c

\* str.isupper() or str.islower() of one character.
IsCased(c) == IsLower(c) \/ IsUpper(c)

\* str.upper() of one character.
Upper(c) ==
    IF IsLower(c)
    THEN UpperLetters[CHOOSE i \in DOMAIN LowerLetters : LowerLetters[i] = c]
    ELSE c

\* str.lower() of one character.
Lower(c) ==
    IF IsUpper(c)
    THEN LowerLetters[CHOOSE i \in DOMAIN UpperLetters : UpperLetters[i] = c]
    ELSE c

\* str.title(): a cased character is upper-cased when the character before it
\* is not cased (a digit, an underscore, the start), lower-cased otherwise.
title(key) ==
    [i \in 1..Len(key) |->
        IF IsCased(key[i])
        THEN IF i > 1 /\ IsCased(key[i - 1])
             THEN Lower(key[i])
             ELSE Upper(key[i])
        ELSE key[i]]

\* str.replace("_", "")
replace_underscores(key) == SelectSeq(key, LAMBDA c : c # "_")

\* key.title().replace("_", "")
TitleCaseKey(key) == replace_underscores(title(key))

\* key[0] + key.title().replace("_", "")[1:]
CamelCaseKey(key) ==
    LET t == TitleCaseKey(key) IN
    <<key[1]>> \o (IF t = <<>> THEN <<>> ELSE Tail(t))

SelfKey == <<"s", "e", "l", "f">>

\* filtered_locals[new_key] = value
DictPut(d, k, v) ==
    [x \in DOMAIN d \cup {k} |-> IF x = k THEN v ELSE d[x]]

EmptyDict == [x \in {} |-> None]

\* An optional list argument: the default None, or a list.
NoList == [is_none |-> TRUE, items |-> <<>>]
List(items) == [is_none |-> FALSE, items |-> items]

\* The for loop of prepare_params_for_api_call over locals_.items().
RECURSIVE FilterLoop(_, _, _, _)
FilterLoop(items, values_to_filter, title_case, filtered_locals) ==
    IF items = <<>> THEN filtered_locals
    ELSE LET key == Head(items)[1]
             value == Head(items)[2]
             listed == \E i \in DOMAIN values_to_filter :
                          values_to_filter[i] = key
         IN
         IF value # None /\ ~listed
         THEN FilterLoop(Tail(items), values_to_filter, title_case,
                         DictPut(filtered_locals,
                                 IF title_case THEN TitleCaseKey(key)
                                 ELSE CamelCaseKey(key),
                                 value))
         ELSE FilterLoop(Tail(items), values_to_filter, title_case,
                         filtered_locals)

\* GabbClient.prepare_params_for_api_call; values_to_filter is None or a list.
prepare_params_for_api_call(locals_, values_to_filter, title_case) ==
    FilterLoop(locals_,
               (IF values_to_filter.is_none THEN <<>>
                ELSE values_to_filter.items) \o <<SelfKey>>,
               title_case, EmptyDict)

\* --------------------------------------------- the partial-update operations
device_id == <<"d", "e", "v", "i", "c", "e", "_", "i", "d">>
birthDate == <<"b", "i", "r", "t", "h", "D", "a", "t", "e">>
tracking_start_time ==
    <<"t", "r", "a", "c", "k", "i", "n", "g", "_", "s", "t", "a", "r", "t", "_", "t", "i", "m", "e">>
tracking_end_time ==
    <<"t", "r", "a", "c", "k", "i", "n", "g", "_", "e", "n", "d", "_", "t", "i", "m", "e">>

\* The optional parameters of update_device_profile, in order.
ProfileParams ==
    <<<<"g", "e", "n", "d", "e", "r">>,
      <<"f", "i", "r", "s", "t", "_", "n", "a", "m", "e">>,
      <<"l", "a", "s", "t", "_", "n", "a", "m", "e">>,
      <<"b", "i", "r", "t", "h", "_", "d", "a", "t", "e">>>>

\* The optional parameters of update_device_settings, in order.
SettingsParams ==
    <<<<"a", "c", "t", "i", "v", "e", "_", "t", "r", "a", "c", "k", "i", "n", "g", "_", "e", "n", "a", "b", "l", "e">>,
      <<"a", "c", "t", "i", "v", "e", "_", "t", "r", "a", "c", "k", "i", "n", "g", "_", "d", "u", "r", "a", "t", "i", "o", "n">>,
      <<"a", "c", "t", "i", "v", "e", "_", "t", "r", "a", "c", "k", "i", "n", "g", "_", "f", "r", "e", "q", "u", "e", "n", "c", "y">>,
      <<"b", "a", "t", "t", "e", "r", "y", "_", "p", "o", "w", "e", "r", "_", "s", "a", "v", "i", "n", "g", "_", "m", "o", "d", "e">>,
      <<"t", "r", "a", "c", "k", "i", "n", "g", "_", "e", "n", "a", "b", "l", "e", "d">>,
      <<"t", "r", "a", "c", "k", "i", "n", "g", "_", "s", "t", "a", "r", "t", "_", "t", "i", "m", "e">>,
      <<"t", "r", "a", "c", "k", "i", "n", "g", "_", "e", "n", "d", "_", "t", "i", "m", "e">>,
      <<"t", "r", "a", "c", "k", "i", "n", "g", "_", "i", "n", "t", "e", "r", "v", "a", "l">>,
      <<"s", "i", "l", "e", "n", "t", "_", "m", "o", "d", "e">>>>

\* locals() at the top of a method called with args (None where the caller
\* left the default): self, device_id, then the optional parameters.
LocalsOf(params, args) ==
    <<<<SelfKey, "self">>, <<device_id, "id">>>>
      \o [i \in DOMAIN params |-> <<params[i], args[i]>>]

\* str(time)[:-3], also of the None a caller left.
StrTime(value) == IF value = None THEN "N" ELSE "hh:mm"

\* update_device_profile up to its session call: the payload.
update_device_profile(args) ==
    LET payload == prepare_params_for_api_call(
                       LocalsOf(ProfileParams, args), List(<<device_id>>),
                       FALSE)
    IN IF birthDate \in DOMAIN payload
       THEN DictPut(payload, birthDate, "ms")
       ELSE payload

\* update_device_settings up to its session call: the payload.
update_device_settings(args) ==
    LET locals_0 == LocalsOf(SettingsParams, args)
        locals_ == [i \in DOMAIN locals_0 |->
                       IF locals_0[i][1] \in
                              {tracking_start_time, tracking_end_time}
                       THEN <<locals_0[i][1], StrTime(locals_0[i][2])>>
                       ELSE locals_0[i]]
    IN prepare_params_for_api_call(locals_, List(<<device_id>>), FALSE)

NoCall ==
    [op |-> "none", locals_ |-> <<>>, values_to_filter |-> NoList,
     title_case |-> FALSE, supplied |-> {}, returned |-> EmptyDict]

\* ------------------------------------------- class and instance attributes
Instances == {"auth1", "auth2"}
AttrNames == {"_access_token", "_refresh_token", "_exp_date"}

\* The class body of GabbAuth: the three token defaults and the header dict.
GabbAuthClass == [tok |-> EmptyTok, _required_headers |-> _required_headers]

\* An object before __init__ ran: no attribute of its own.
NoInstance == [built |-> FALSE, own |-> {}, tok |-> EmptyTok]

\* The token fields of new for the attributes in attrs, of old for the rest.
MergeTok(old, new, attrs) ==
    [access_token |-> IF "_access_token" \in attrs THEN new.access_token
                      ELSE old.access_token,
     refresh_token |-> IF "_refresh_token" \in attrs THEN new.refresh_token
                       ELSE old.refresh_token,
     exp_date |-> IF "_exp_date" \in attrs THEN new.exp_date
                  ELSE old.exp_date]

\* self._access_token, self._refresh_token, self._exp_date as object i reads
\* them: its own attribute where it has one, else the attribute of the class.
LookupTok(cls, objs, i) == MergeTok(cls.tok, objs[i].tok, objs[i].own)

\* The attributes _update_tokens_from_response assigns before it returns or
\* raises.
AssignedAttrs(response) ==
    IF ~response.reached \/ ~response.json \/ response.accessToken = Missing
    THEN {}
    ELSE IF response.refreshToken = Missing
    THEN {"_access_token"}
    ELSE IF response.expDate.kind \in {"missing", "unparseable"}
    THEN {"_access_token", "_refresh_token"}
    ELSE AttrNames

\* Variant of StoreAttrs that assigns to the attributes of the class.
store_attrs_on_class(cls, objs, i, attrs, tok) ==
    [cls |-> [cls EXCEPT !.tok = MergeTok(@, tok, attrs)], objs |-> objs]

\* self.<attr> = value for the attributes in attrs: an assignment through
\* self makes an attribute of the object and leaves the class as it is.
StoreAttrs(cls, objs, i, attrs, tok) ==
    [cls |-> cls,
     objs |-> [objs EXCEPT ![i].own = @ \cup attrs,
                           ![i].tok = MergeTok(@, tok, attrs)]]

\* ------------------------------------------------------ GabbClient operations
Callers == {"caller1", "caller2"}
Modes == {"sequential", "concurrent"}

\* get_safezones, add_safezone, delete_safezone, update_safezone
SafezoneOps ==
    {"get_safezones", "add_safezone", "delete_safezone", "update_safezone"}

\* Operations that call the session without touching the flag.
PlainOps == {"get_contacts"}

\* add_todo, update_todo
TodoStubs == {"add_todo", "update_todo"}

ClientOps == SafezoneOps \cup PlainOps \cup TodoStubs

\* "safezone" for the operations served by the alternate base, else "plain".
KindOf(op) == IF op \in SafezoneOps THEN "safezone" ELSE "plain"

TodoRef == Url("", "", <<"todo">>)

\* The url an operation passes to the session.
PathOf(op) ==
    CASE op = "get_contacts" -> ContactRef
      [] op = "get_safezones" -> SafezoneListRef
      [] op = "add_safezone" -> Url("", "", <<"safezone", "add">>)
      [] op = "delete_safezone" -> Url("", "", <<"safezone", "delete?zoneId=z">>)
      [] op = "update_safezone" -> Url("", "", <<"safezone", "edit?zoneId=z">>)
      [] OTHER -> TodoRef

\* Variant of Raises in which the todo operations are implemented.
raises_nothing(op) == "none"

\* The exception an operation raises as its only statement.
Raises(op) ==
    IF op \in TodoStubs THEN "NotImplementedError" ELSE "none"

\* Variant of OpSteps that sets the flag after the request.
op_steps_flag_after(op) ==
    IF Raises(op) # "none" THEN <<"raise">>
    ELSE IF op \in SafezoneOps THEN <<"request", "set_flag">>
    ELSE <<"request">>

\* The statements of an operation that touch the session, in order.
OpSteps(op) ==
    IF Raises(op) # "none" THEN <<"raise">>
    ELSE IF op \in SafezoneOps THEN <<"set_flag", "request">>
    ELSE <<"request">>

IdleCaller == [op |-> "none", next |-> 0]
NoOp == [op |-> "none", raised |-> "none"]

\* The state before GabbClient is constructed, the callers idle.
InitWith(modes) ==
    /\ mode \in modes
    /\ callers = [c \in Callers |-> IdleCaller]
    /\ lastOp = NoOp
    /\ opBase = [kind \in {"safezone", "plain"} |-> "none"]
    /\ call = NoCall
    /\ class_attrs = GabbAuthClass
    /\ instances = [i \in Instances |-> NoInstance]
    /\ actor = "none"
    /\ phase = "unbuilt"
    /\ _access_token = EmptyStr
    /\ _refresh_token = EmptyStr
    /\ _exp_date = EmptyExp
    /\ use_alt_base_url_next_request = FALSE
    /\ base_url = NoUrl
    /\ alt_base_url = NoUrl
    /\ headers = {}
    /\ now \in Times
    /\ loginCalls = 0
    /\ refreshCalls = 0
    /\ lastPost = NoPost
    /\ lastResp = NoResponse
    /\ authErr = "none"
    /\ lastGood = EmptyTok
    /\ nreq = 0
    /\ setsSince = "never"
    /\ lastReq = NoReq
    /\ prevReq = Summary(NoReq)

Init == InitWith({"sequential"})

\* GabbClient.__init__ with GabbSession.__init__ and GabbAuth.__init__: the
\* two bases are stored, the flag is cleared, then the authenticator logs in;
\* an exception of the login leaves no session.
Construct(pool, bases) ==
    /\ phase = "unbuilt"
    /\ \E base \in bases :
         /\ base_url' = base_url_v2(base)
         /\ alt_base_url' = base
    /\ \E response \in pool :
         LET r == _new_authentication(Tok, response) IN
         /\ phase' = IF r.err = "none" THEN "ready" ELSE "failed"
         /\ _access_token' = r.tok.access_token
         /\ _refresh_token' = r.tok.refresh_token
         /\ _exp_date' = r.tok.exp_date
         /\ loginCalls' = loginCalls + 1
         /\ lastPost' = r.post
         /\ lastResp' = response
         /\ authErr' = r.err
         /\ lastGood' = IF r.err = "none" THEN r.tok ELSE lastGood
         /\ headers' = IF r.err = "none"
                       THEN SessionHeadersAfterInit(DefaultSessionHeaders,
                                                    _required_headers)
                       ELSE DefaultSessionHeaders
    /\ use_alt_base_url_next_request' = FALSE
    /\ UNCHANGED <<now, refreshCalls, nreq, setsSince, lastReq, prevReq>>
    /\ UNCHANGED clientVars

\* self._session.use_alt_base_url_next_request = True
SetFlagStmt ==
    /\ phase = "ready"
    /\ use_alt_base_url_next_request' = TRUE
    /\ setsSince' = IF setsSince = "never" THEN "once" ELSE "several"
    /\ UNCHANGED <<phase, _access_token, _refresh_token, _exp_date, now,
                   base_url, alt_base_url, headers,
                   loginCalls, refreshCalls, lastPost, lastResp, authErr,
                   lastGood, nreq, lastReq, prevReq>>

\* The flag set by a user of the session.
SetFlag == SetFlagStmt /\ UNCHANGED clientVars

\* GabbSession.request: pick the base and clear the flag, then
\* requests.Session.request: prepare the request (which runs the auth hook)
\* and, when the hook returned, send it.
RequestWith(flag, sets, pool, outcomes, paths) ==
    /\ phase = "ready"
    /\ nreq < MaxRequests
    /\ \E response \in IF Posts(Tok, now) THEN pool ELSE {NoResponse},
          url \in paths :
         LET base == SelectBase(flag)
             joined_url == urljoin(BaseValue(base, base_url, alt_base_url), url)
             h == __call__(Tok, now, response)
             sent == h.err = "none"
             refreshed == Len(h.posts) > 0
         IN
         \E outcome \in IF sent THEN outcomes ELSE {"not_sent"} :
         /\ use_alt_base_url_next_request' = FlagAfterRequest(flag)
         /\ _access_token' = h.tok.access_token
         /\ _refresh_token' = h.tok.refresh_token
         /\ _exp_date' = h.tok.exp_date
         /\ loginCalls' = loginCalls + CountPosts(h.posts, "auth_url")
         /\ refreshCalls' = refreshCalls + CountPosts(h.posts, "refresh_url")
         /\ lastPost' = IF refreshed THEN h.posts[Len(h.posts)] ELSE lastPost
         /\ lastResp' = IF refreshed THEN response ELSE lastResp
         /\ authErr' = IF refreshed THEN h.err ELSE authErr
         /\ lastGood' = IF refreshed /\ h.err = "none" THEN h.tok ELSE lastGood
         /\ lastReq' =
                [base |-> base, sets |-> sets, now |-> now,
                 path |-> url, url |-> joined_url,
                 headers |-> SentHeaders(headers, {}),
                 events |-> IF sent THEN h.events \o <<"send">> ELSE h.events,
                 header |-> h.header, err |-> h.err,
                 outcome |-> outcome]
    /\ prevReq' = Summary(lastReq)
    /\ nreq' = nreq + 1
    /\ setsSince' = "never"
    /\ UNCHANGED <<phase, now, base_url, alt_base_url, headers>>

\* A call of session.request (get, post, put, delete) as it finds the flag.
Request(pool, outcomes, paths) ==
    /\ RequestWith(use_alt_base_url_next_request, setsSince, pool, outcomes,
                   paths)
    /\ UNCHANGED clientVars

\* The wall clock advances.
Tick ==
    /\ now < MaxTime
    /\ now' = now + 1
    /\ UNCHANGED <<phase, _access_token, _refresh_token, _exp_date,
                   use_alt_base_url_next_request, base_url, alt_base_url,
                   headers, loginCalls, refreshCalls,
                   lastPost, lastResp, authErr, lastGood, nreq, setsSince,
                   lastReq, prevReq>>
    /\ UNCHANGED clientVars

\* ------------------------------------------------------------------ helpers
\* Number of times event e occurs in events.
Occurrences(events, e) == Cardinality({i \in DOMAIN events : events[i] = e})

\* Every occurrence of a comes before every occurrence of b.
Precedes(events, a, b) ==
    \A i, j \in DOMAIN events : (events[i] = a /\ events[j] = b) => i < j

\* The step is one session.request call.
RequestStep == nreq' = nreq + 1

\* The step made a POST to a token endpoint.
TokenPostStep == loginCalls' # loginCalls \/ refreshCalls' # refreshCalls

\* A response body with all three token fields, the expDate parseable.
WellFormed(response) ==
    /\ response.reached
    /\ response.json
    /\ response.accessToken \in Tokens
    /\ response.refreshToken \in Tokens
    /\ response.expDate.kind \in {"aware", "naive"}

\* ----------------------------------------------------------- specifications
\* The authenticator against every answer the token endpoints can give; the
\* caller issues requests on the primary base URL only, and a request that
\* was sent is answered or fails in the transport.
ConstructAny == Construct(Responses, {DefaultBaseUrl})
RequestAny == Request(Responses, {"ok", "transport_error"}, {ContactRef})

NextAuth == ConstructAny \/ RequestAny \/ Tick

SpecAuth == Init /\ [][NextAuth]_vars

\* The session with its one-shot flag; the token endpoints are unreachable or
\* answer 200 with a complete body.
SessionResponses ==
    {Unreachable}
    \cup {r \in Responses : /\ r.status = 200
                            /\ r.accessToken = "tokB"
                            /\ r.refreshToken = "tokB"
                            /\ r.expDate.kind = "aware"}

ConstructSession == Construct(SessionResponses, {DefaultBaseUrl})
RequestSession ==
    Request(SessionResponses, Outcomes, {ContactRef, SafezoneListRef})

NextSession == ConstructSession \/ SetFlag \/ RequestSession \/ Tick

SpecSession == Init /\ [][NextSession]_vars

\* URL resolution: the caller picks the client's base and the paths of its
\* requests; the token endpoints answer 200 with a complete body that does
\* not expire, and every request is answered.
UrlResponses ==
    {r \in SessionResponses : r.reached /\ r.expDate = Aware(MaxTime)}

\* Bases a caller gives GabbClient: the default, and one with a path and no
\* trailing slash ("https://api.myfilip.com/api").
UrlBases == {DefaultBaseUrl, Url("https", "api.myfilip.com", <<"", "api">>)}

\* Paths a caller gives session.request: relative ones, one with a leading
\* slash, absolute URLs, and one with a scheme and no host ("https:contact").
UrlPaths ==
    {ContactRef, SafezoneListRef,
     Url("", "", <<"", "safezone", "list">>),
     Url("https", "other.example", <<"", "x">>),
     Url("http", "other.example", <<"", "x">>),
     Url("https", "", <<"contact">>)}

ConstructUrl == Construct(UrlResponses, UrlBases)
RequestUrl == Request(UrlResponses, {"ok"}, UrlPaths)

NextUrl == ConstructUrl \/ SetFlag \/ RequestUrl \/ Tick

SpecUrl == Init /\ [][NextUrl]_vars

\* Calls of prepare_params_for_api_call and of the two partial-update
\* operations; they need no session.
KeyAlphabet == {"a", "1", "_"}
Keys == UNION {[1..n -> KeyAlphabet] : n \in 1..MaxKeyLen}

\* The arguments of a call: one value or None for each optional parameter.
ArgsOf(params) == [DOMAIN params -> {None, "value"}]

\* The optional parameters the caller supplied.
Supplied(params, args) == {params[i] : i \in {j \in DOMAIN params : args[j] # None}}

\* The three calls read nothing but their arguments, so one call a run shows
\* all they do.
FirstCall == call = NoCall

\* Everything but call.
sessionVars ==
    <<phase, _access_token, _refresh_token, _exp_date,
      use_alt_base_url_next_request, base_url, alt_base_url, headers, now,
      loginCalls, refreshCalls, lastPost, lastResp, authErr, lastGood, nreq,
      setsSince, lastReq, prevReq, mode, callers, lastOp, opBase>>

PrepareParams ==
    /\ FirstCall
    /\ \E k1, k2 \in Keys, v1 \in {None, "v1"}, v2 \in {None, "v2"},
          title_case \in BOOLEAN :
         \E listed \in BOOLEAN :
            LET locals_ == <<<<SelfKey, "self">>, <<k1, v1>>, <<k2, v2>>>>
                values_to_filter == IF listed THEN List(<<k1>>) ELSE NoList
            IN
            /\ k1 # k2
            /\ call' = [op |-> "prepare_params_for_api_call",
                        locals_ |-> locals_,
                        values_to_filter |-> values_to_filter,
                        title_case |-> title_case,
                        supplied |-> {},
                        returned |-> prepare_params_for_api_call(
                                         locals_, values_to_filter, title_case)]
    /\ UNCHANGED <<sessionVars, instanceVars>>

UpdateDeviceProfile ==
    /\ FirstCall
    /\ \E args \in ArgsOf(ProfileParams) :
         call' = [op |-> "update_device_profile",
                  locals_ |-> LocalsOf(ProfileParams, args),
                  values_to_filter |-> List(<<device_id>>),
                  title_case |-> FALSE,
                  supplied |-> Supplied(ProfileParams, args),
                  returned |-> update_device_profile(args)]
    /\ UNCHANGED <<sessionVars, instanceVars>>

UpdateDeviceSettings ==
    /\ FirstCall
    /\ \E args \in ArgsOf(SettingsParams) :
         call' = [op |-> "update_device_settings",
                  locals_ |-> LocalsOf(SettingsParams, args),
                  values_to_filter |-> List(<<device_id>>),
                  title_case |-> FALSE,
                  supplied |-> Supplied(SettingsParams, args),
                  returned |-> update_device_settings(args)]
    /\ UNCHANGED <<sessionVars, instanceVars>>

NextParams == PrepareParams \/ UpdateDeviceProfile \/ UpdateDeviceSettings

SpecParams == Init /\ [][NextParams]_vars

\* The client used by its callers, one operation at a time ("sequential") or
\* with the statements of their operations interleaved ("concurrent").
ClientOutcomes == {"ok", "transport_error"}

\* The token endpoints are unreachable or grant a token that expires at 0.
ClientResponses ==
    {Unreachable} \cup {r \in SessionResponses : r.expDate = Aware(0)}

\* Statement k of operation op, run by caller c.  GabbSession.request is taken
\* as one step.
ClientStep(c, op, k, pool, outcomes) ==
    LET step == OpSteps(op)[k]
        done == k = Len(OpSteps(op))
    IN
    /\ callers' = [callers EXCEPT
                     ![c] = IF done THEN IdleCaller
                            ELSE [op |-> op, next |-> k + 1]]
    /\ \/ /\ step = "set_flag"
          /\ SetFlagStmt
          /\ UNCHANGED <<lastOp, opBase>>
       \/ /\ step = "request"
          /\ RequestWith(use_alt_base_url_next_request, setsSince,
                         pool, outcomes, {PathOf(op)})
          /\ opBase' = [opBase EXCEPT ![KindOf(op)] = lastReq'.base]
          /\ lastOp' = [op |-> op,
                        raised |-> IF lastReq'.err # "none" THEN lastReq'.err
                                   ELSE IF lastReq'.outcome = "transport_error"
                                   THEN "ConnectionError"
                                   ELSE "none"]
       \/ /\ step = "raise"
          /\ phase = "ready"
          /\ lastOp' = [op |-> op, raised |-> Raises(op)]
          /\ UNCHANGED <<phase, _access_token, _refresh_token, _exp_date,
                         use_alt_base_url_next_request, base_url, alt_base_url,
                         headers, now, loginCalls, refreshCalls, lastPost,
                         lastResp, authErr, lastGood, nreq, setsSince, lastReq,
                         prevReq, opBase>>
    /\ UNCHANGED <<mode, call, instanceVars>>

\* A caller calls an operation of the client and runs its first statement.
ClientCall(ops, pool, outcomes) ==
    \E c \in Callers, op \in ops :
        /\ callers[c] = IdleCaller
        /\ mode = "sequential" => \A d \in Callers : callers[d] = IdleCaller
        /\ ClientStep(c, op, 1, pool, outcomes)

\* A caller runs the next statement of the operation it is in.
ClientContinue(pool, outcomes) ==
    \E c \in Callers :
        /\ callers[c] # IdleCaller
        /\ ClientStep(c, callers[c].op, callers[c].next, pool, outcomes)

\* Every operation, one at a time, with failing token endpoints and failing
\* requests.
ConstructClient == Construct(ClientResponses, {DefaultBaseUrl})
CallClient == ClientCall(ClientOps, ClientResponses, ClientOutcomes)
ContinueClient == ClientContinue(ClientResponses, ClientOutcomes)

NextClient == ConstructClient \/ CallClient \/ ContinueClient \/ Tick

SpecClient == Init /\ [][NextClient]_vars

\* Two callers of one client, their operations one after the other or
\* interleaved.
ThreadOps == {"get_safezones", "get_contacts", "add_todo", "update_todo"}
InitThreads == InitWith(Modes)
CallThreads == ClientCall(ThreadOps, ClientResponses, {"ok"})
ContinueThreads == ClientContinue(ClientResponses, {"ok"})

NextThreads == ConstructClient \/ CallThreads \/ ContinueThreads \/ Tick

SpecThreads == InitThreads /\ [][NextThreads]_vars

\* The authenticator against token endpoints that grant a token with an
\* aware expiry or fail before any token field is assigned: unreachable, a
\* body that is no JSON, a 401 body without token fields.
RetryResponses ==
    {Unreachable, NonJson(401)}
    \cup {r \in Responses : /\ r.json
                            /\ r.status = 401
                            /\ r.accessToken = Missing
                            /\ r.refreshToken = Missing
                            /\ r.expDate.kind = "missing"}
    \cup {r \in Responses : /\ r.json
                            /\ r.status = 200
                            /\ r.accessToken \in Tokens
                            /\ r.refreshToken \in Tokens
                            /\ r.expDate.kind = "aware"}

ConstructRetry == Construct(RetryResponses, {DefaultBaseUrl})
RequestRetry == Request(RetryResponses, {"ok", "transport_error"}, {ContactRef})

NextRetry == ConstructRetry \/ RequestRetry \/ Tick

SpecRetry == Init /\ [][NextRetry]_vars

\* Two GabbAuth objects in one process.
InstanceResponses == Responses

\* GabbAuth(...) for object i: __init__ logs in; when the login raises, the
\* constructor raises and the object is dropped.
NewAuth ==
    \E i \in Instances, response \in InstanceResponses :
        LET r == _new_authentication(LookupTok(class_attrs, instances, i),
                                     response)
            m == StoreAttrs(class_attrs, instances, i,
                            AssignedAttrs(response), r.tok)
        IN
        /\ ~instances[i].built
        /\ class_attrs' = m.cls
        /\ instances' = IF r.err = "none"
                        THEN [m.objs EXCEPT ![i].built = TRUE]
                        ELSE [m.objs EXCEPT ![i] = NoInstance]
        /\ actor' = i
        /\ UNCHANGED <<sessionVars, call>>

\* The auth hook of object i runs for a request.
HookAuth ==
    \E i \in Instances :
      \E response \in IF Posts(LookupTok(class_attrs, instances, i), now)
                      THEN InstanceResponses ELSE {NoResponse} :
        LET h == __call__(LookupTok(class_attrs, instances, i), now, response)
            m == StoreAttrs(class_attrs, instances, i,
                            IF Len(h.posts) > 0 THEN AssignedAttrs(response)
                            ELSE {},
                            h.tok)
        IN
        /\ instances[i].built
        /\ class_attrs' = m.cls
        /\ instances' = m.objs
        /\ actor' = i
        /\ UNCHANGED <<sessionVars, call>>

NextInstances == NewAuth \/ HookAuth \/ Tick

SpecInstances == Init /\ [][NextInstances]_vars

\* ------------------------------------------------------------------- claims
\* C1: a request whose hook sees a stored expiry strictly earlier than the
\* current time makes exactly one refresh POST (the count of refresh calls
\* grows by one at every such request, so two in a row make two), and the
\* POST comes before the Authorization header is set and before the request
\* is sent.
C1_ExpiredRefreshesOnce ==
    [][(RequestStep /\ _exp_date.kind = "aware" /\ _exp_date.t < now)
          => /\ refreshCalls' = refreshCalls + 1
             /\ Occurrences(lastReq'.events, "post_refresh") = 1
             /\ Precedes(lastReq'.events, "post_refresh", "set_header")
             /\ Precedes(lastReq'.events, "post_refresh", "send")
             /\ Precedes(lastReq'.events, "set_header", "send")]_vars

\* Two requests in a row each saw an expired token, each made its own
\* refresh POST, and the second one was sent after its refresh.
C1_Witness ==
    /\ nreq = 2
    /\ refreshCalls = 2
    /\ lastReq.events = <<"post_refresh", "set_header", "send">>

\* C2: a request whose hook sees a stored expiry later than or equal to the
\* current time makes no refresh POST and no login POST and leaves the three
\* token fields as they were.
C2_ValidTokenNoRefresh ==
    [][(RequestStep /\ _exp_date.kind = "aware" /\ _exp_date.t >= now)
          => /\ refreshCalls' = refreshCalls
             /\ loginCalls' = loginCalls
             /\ _access_token' = _access_token
             /\ _refresh_token' = _refresh_token
             /\ _exp_date' = _exp_date
             /\ Occurrences(lastReq'.events, "post_refresh") = 0
             /\ lastReq'.header = Bearer(_access_token)]_vars

\* A request was decorated at the very instant its token expires, without a
\* refresh.
C2_Witness ==
    /\ nreq > 0
    /\ lastReq.events = <<"set_header", "send">>
    /\ _exp_date.kind = "aware"
    /\ _exp_date.t = lastReq.now

\* C3: a request made after the flag was set (once or several times) since
\* the request before it resolves against the alternate base, a request made
\* with no set since the request before it resolves against the primary base,
\* whatever became of the request before it, and once a request was made the
\* flag stays cleared until it is set again.
C3_OneShotFlag ==
    /\ nreq > 0 =>
          lastReq.base = IF lastReq.sets = "never" THEN "base_url" ELSE "alt_base_url"
    /\ (nreq > 0 /\ setsSince = "never") => ~use_alt_base_url_next_request

\* An alternate-base request failed in the token refresh, and the request
\* after it went to the primary base.
C3_Witness ==
    /\ nreq = 2
    /\ prevReq.base = "alt_base_url"
    /\ prevReq.outcome = "not_sent"
    /\ lastReq.base = "base_url"
    /\ ~use_alt_base_url_next_request

\* C4: a login or refresh attempt leaves the three token fields either all
\* as they were or all equal to the fields of its response.
C4_NoPartialUpdate ==
    [][TokenPostStep => (Tok' = Tok \/ Tok' = FieldsOf(lastResp'))]_vars

C6_NonSuccessStatusRejected ==
    [][(TokenPostStep /\ WellFormed(lastResp') /\ lastResp'.status # 200)
          => (authErr' = "AuthenticationError" /\ Tok' = Tok)]_vars

\* C7: every refresh POST carries only the key refreshToken, its value is the
\* refresh token of the latest login or refresh that did not raise, and a
\* refresh that does not raise sets all three fields from its response.
C7_RefreshSendsLastGoodToken ==
    [][(refreshCalls' # refreshCalls)
          => /\ lastPost'.url = "refresh_url"
             /\ lastPost'.keys = {"refreshToken"}
             /\ lastPost'.refreshToken = lastGood.refresh_token
             /\ (authErr' = "none" => Tok' = FieldsOf(lastResp'))]_vars

\* C8: the login endpoint is POSTed to once, by the construction, before any
\* request; no request, expiry or failed refresh makes a second login.
C8_LoginOnce ==
    /\ loginCalls = IF phase = "unbuilt" THEN 0 ELSE 1
    /\ nreq > 0 => phase = "ready"
    /\ refreshCalls > 0 => lastPost.url = "refresh_url"
    /\ Occurrences(lastReq.events, "post_auth") = 0

\* A refresh failed, a further request was made, and the only login is
\* still the one of the construction.
C8_Witness ==
    /\ nreq = 2
    /\ refreshCalls = 2
    /\ prevReq.outcome = "not_sent"
    /\ authErr # "none"
    /\ loginCalls = 1

\* C9: when the hook returned, the Authorization header is Bearer with the
\* stored access token, which is the one of the latest login or refresh that
\* did not raise: the one of this request's refresh if it made one.
C9_HeaderIsCurrentToken ==
    (nreq > 0 /\ lastReq.err = "none")
        => /\ lastReq.header = Bearer(_access_token)
           /\ _access_token = lastGood.access_token
           /\ Occurrences(lastReq.events, "post_refresh") > 0
                 => _access_token = lastResp.accessToken

\* A refresh replaced tokA by tokB and the request left with tokB.
C9_Witness ==
    /\ nreq = 1
    /\ lastReq.events = <<"post_refresh", "set_header", "send">>
    /\ lastPost.refreshToken = "tokA"
    /\ lastResp.accessToken = "tokB"
    /\ lastReq.header = Bearer("tokB")

\* C10: when the hook returned, the stored expiry is not earlier than the
\* time its expiry check used.
C10_AttachedTokenNotExpired ==
    (nreq > 0 /\ lastReq.err = "none")
        => ~(_exp_date.kind = "aware" /\ _exp_date.t < lastReq.now)

\* C11: a login or refresh whose response cannot be taken (unreachable,
\* not JSON, a field missing or unparseable) is POSTed once and not again, and
\* its exception reaches the caller: the construction fails, or the request
\* ends with that exception, is not sent and carries no Authorization header.
C11_FailurePropagatesNoRetry ==
    [][(TokenPostStep /\ ~WellFormed(lastResp'))
          => /\ authErr' # "none"
             /\ loginCalls' + refreshCalls' = loginCalls + refreshCalls + 1
             /\ RequestStep
                   => /\ lastReq'.err = authErr'
                      /\ lastReq'.outcome = "not_sent"
                      /\ lastReq'.header = NoHeader
                      /\ lastReq'.events = <<"post_refresh">>
             /\ ~RequestStep => (phase' = "failed" /\ nreq' = 0)]_vars

\* A request's refresh could not reach the endpoint: one POST, the request
\* not sent, no header on it.
C11_Witness ==
    /\ nreq = 1
    /\ refreshCalls = 1
    /\ authErr = "ConnectionError"
    /\ lastReq.err = "ConnectionError"
    /\ lastReq.outcome = "not_sent"
    /\ lastReq.header = NoHeader

LastBase == BaseValue(lastReq.base, base_url, alt_base_url)

\* The path has a leading slash.
LeadingSlash(path) == Len(path) > 1 /\ path[1] = ""

\* No "." or ".." segment in the path.
DotFree(path) == \A i \in DOMAIN path : path[i] \notin {".", ".."}

\* The base up to and with its last "/", followed by the path.
AfterLastSlash(base, path) ==
    Url(base.scheme, base.netloc,
        SubSeq(base.path, 1, Len(base.path) - 1) \o path)

CarriesFixedHeaders(h) ==
    /\ <<"X-Accept-Language", "en-US">> \in h
    /\ <<"X-Accept-Offset", "-5.000000">> \in h
    /\ <<"Accept-Version", "1.0">> \in h
    /\ <<"User-Agent", "FiLIP-iOS">> \in h
    /\ <<"X-Accept-Version", "1.0">> \in h
    /\ <<"Content-Type", "application/json">> \in h
    /\ \A a, b \in h : a[1] = b[1] => a = b

\* C14: the login POST, every refresh POST and every API request that was
\* sent carry the six fixed protocol headers with their fixed values.
C14_FixedHeadersOnEveryCall ==
    /\ lastPost.url # "none" => CarriesFixedHeaders(lastPost.headers)
    /\ (nreq > 0 /\ lastReq.outcome # "not_sent")
          => CarriesFixedHeaders(lastReq.headers)

\* A login, a refresh and an API request were all made.
C14_Witness ==
    /\ loginCalls = 1
    /\ lastPost.url = "refresh_url"
    /\ lastReq.events = <<"post_refresh", "set_header", "send">>
    /\ lastReq.outcome = "ok"

\* C15: a call of add_todo or update_todo raises NotImplementedError and
\* makes no session request and no token POST, and leaves the token fields
\* and the one-shot flag as they were.
C15_TodoStubsRaiseOnly ==
    [][(lastOp' # lastOp /\ lastOp'.op \in {"add_todo", "update_todo"})
         => /\ lastOp'.raised = "NotImplementedError"
            /\ UNCHANGED <<nreq, lastReq, loginCalls, refreshCalls, lastPost,
                           _access_token, _refresh_token, _exp_date,
                           use_alt_base_url_next_request>>]_vars

\* add_todo raised while the stored token was expired and the flag was set by
\* another caller.
C15_Witness ==
    /\ lastOp = [op |-> "add_todo", raised |-> "NotImplementedError"]
    /\ use_alt_base_url_next_request
    /\ _exp_date.t < now
    /\ nreq = 0

\* The latest request of a plain operation used the alternate base and the
\* latest request of a safezone operation the primary base.
Misrouted ==
    /\ opBase["safezone"] = "base_url"
    /\ opBase["plain"] = "alt_base_url"

\* C16: with the operations run one at a time, no state has a plain request
\* resolved against the alternate base and a safezone request against the
\* primary base; the witness is that state, reached by interleaved callers.
C16_SequentialNeverMisroutes == mode = "sequential" => ~Misrouted

\* Two callers interleaved: the plain request took the flag the safezone
\* operation had set.
C16_Witness ==
    /\ mode = "concurrent"
    /\ Misrouted
    /\ lastReq.base = "base_url"
    /\ prevReq.base = "alt_base_url"

\* C18: with the operations run one at a time, the request of each of the
\* four safezone operations is resolved against the alternate base (the base
\* without "v2/") and the request of every other operation against the primary
\* base (the base with "v2/"), whatever was called before and however it
\* ended.
C18_SequentialRouting ==
    [][(nreq' = nreq + 1 /\ mode = "sequential")
         => \A op \in {"get_safezones", "add_safezone", "delete_safezone",
                        "update_safezone", "get_contacts"} :
              lastReq'.path = PathOf(op)
                => IF op = "get_contacts"
                   THEN /\ lastReq'.base = "base_url"
                        /\ lastReq'.url.path
                             = <<"", "v2">> \o lastReq'.path.path
                   ELSE /\ lastReq'.base = "alt_base_url"
                        /\ lastReq'.url.path = <<"">> \o lastReq'.path.path]_vars

\* A safezone request that followed a failed request, and a plain request
\* that followed a safezone request whose refresh failed.
C18_Witness ==
    /\ nreq = 2
    /\ prevReq.outcome \in {"transport_error", "not_sent"}
    /\ \/ /\ lastReq.path = PathOf("update_safezone")
          /\ lastReq.base = "alt_base_url"
       \/ /\ lastReq.path = ContactRef
          /\ lastReq.base = "base_url"
          /\ prevReq.base = "alt_base_url"
    /\ lastReq.outcome = "ok"

\* C17 as stated: a request whose hook sees a stored expiry at or before the
\* current time, equality included, makes a refresh POST.
C17_ExpiredAtOrBeforeNow ==
    [][(RequestStep /\ Comparable(_exp_date) /\ _exp_date.t <= now)
          => /\ refreshCalls' = refreshCalls + 1
             /\ "post_refresh" \in {lastReq'.events[i] :
                                      i \in DOMAIN lastReq'.events}]_vars

\* C17: the hook treats the token as expired, and calls refresh, exactly
\* when the stored expiry is strictly before the current time; a token
\* whose expiry equals the current time is not refreshed.
C17_ExpiredStrictlyBeforeNow ==
    [][(RequestStep /\ Comparable(_exp_date))
          => /\ (refreshCalls' = refreshCalls + 1) <=> (_exp_date.t < now)
             /\ (refreshCalls' = refreshCalls) <=> (_exp_date.t >= now)
             /\ ("post_refresh" \in {lastReq'.events[i] :
                                       i \in DOMAIN lastReq'.events})
                  <=> (_exp_date.t < now)]_vars

\* A request went out without any refresh at the very instant the stored
\* expiry was reached.
C17_Witness ==
    /\ nreq > 0
    /\ refreshCalls = 0
    /\ Comparable(_exp_date)
    /\ _exp_date.t = lastReq.now
    /\ lastReq.events = <<"set_header", "send">>
    /\ lastReq.outcome = "ok"

\* A snake_case name: lower-case letters and digits in words joined by single
\* underscores, the first character a letter.
SnakeCase(key) ==
    /\ IsLower(key[1])
    /\ key[Len(key)] # "_"
    /\ \A i \in DOMAIN key :
          /\ IsLower(key[i]) \/ key[i] \in {"0", "1", "2", "_"}
          /\ (i > 1 /\ key[i] = "_") => key[i - 1] # "_"

\* camelCase of a snake_case name: the underscores removed and the first
\* letter of every word after the first upper-cased.
CamelOf(key) ==
    replace_underscores(
        [i \in DOMAIN key |->
            IF i > 1 /\ key[i - 1] = "_" THEN Upper(key[i]) ELSE key[i]])

\* TitleCase of a snake_case name: as camelCase, the first letter upper-cased
\* as well.
TitleOf(key) ==
    replace_underscores(
        [i \in DOMAIN key |->
            IF i = 1 \/ key[i - 1] = "_" THEN Upper(key[i]) ELSE key[i]])

\* C19: prepare_params_for_api_call returns exactly one entry for each item
\* of locals_ whose key is not "self" and not in values_to_filter and whose
\* value is not None; the entry has the item's value and, as its key, the
\* camelCase (title_case false) or TitleCase (title_case true) of the item's
\* snake_case key.
C19_OneEntryPerKeptItem ==
    call.op = "prepare_params_for_api_call" =>
      LET items == call.locals_
          filtered == {call.values_to_filter.items[i] :
                         i \in DOMAIN call.values_to_filter.items}
          kept == {i \in DOMAIN items : /\ items[i][1] # SelfKey
                                        /\ items[i][1] \notin filtered
                                        /\ items[i][2] # None}
          Converted(key) == IF call.title_case THEN TitleOf(key)
                            ELSE CamelOf(key)
      IN (\A i \in kept : SnakeCase(items[i][1]))
           => /\ Cardinality(DOMAIN call.returned) = Cardinality(kept)
              /\ \A i \in kept :
                    /\ Converted(items[i][1]) \in DOMAIN call.returned
                    /\ call.returned[Converted(items[i][1])] = items[i][2]

\* C20: the payload of update_device_profile and of update_device_settings
\* has exactly the camelCase names of the optional parameters the caller
\* supplied as its keys; a parameter left None adds no key, and device_id is
\* never one.
C20_PayloadKeysAreSuppliedParams ==
    call.op \in {"update_device_profile", "update_device_settings"}
      => DOMAIN call.returned = {CamelOf(param) : param \in call.supplied}

\* C21: a request made with the flag set whose hook finds the token expired
\* POSTs the refresh to the refresh endpoint itself, not through the session;
\* the request keeps the url joined to the alternate base before the refresh
\* and, when the refresh did not raise, is sent there; the flag is cleared by
\* the request alone and not set again, so the request after it, with no
\* flag set in between, is joined to the primary base.
C21_RefreshBypassesUrlResolution ==
    [][/\ (/\ RequestStep
           /\ use_alt_base_url_next_request
           /\ _exp_date.kind = "aware"
           /\ _exp_date.t < now)
          => /\ lastPost'.url = "refresh_url"
             /\ refreshCalls' = refreshCalls + 1
             /\ lastReq'.base = "alt_base_url"
             /\ lastReq'.url = urljoin(alt_base_url, lastReq'.path)
             /\ lastReq'.url.path = <<"">> \o lastReq'.path.path
             /\ (authErr' = "none"
                   => lastReq'.events
                        = <<"post_refresh", "set_header", "send">>)
             /\ use_alt_base_url_next_request' = FALSE
       /\ (/\ RequestStep
           /\ lastReq.base = "alt_base_url"
           /\ Occurrences(lastReq.events, "post_refresh") = 1
           /\ setsSince = "never")
          => /\ lastReq'.base = "base_url"
             /\ lastReq'.url = urljoin(base_url, lastReq'.path)]_vars

\* The first request went to the alternate base and made the one refresh of
\* the run; the second, with no flag set in between, went to the primary
\* base.
C21_Witness ==
    /\ nreq = 2
    /\ refreshCalls = 1
    /\ lastPost.url = "refresh_url"
    /\ prevReq = [base |-> "alt_base_url", outcome |-> "ok"]
    /\ lastReq.base = "base_url"
    /\ lastReq.sets = "never"
    /\ lastReq.events = <<"set_header", "send">>
    /\ lastReq.url.path = <<"", "v2">> \o lastReq.path.path

\* C22: a login or a hook call (with its refresh) on one GabbAuth object
\* leaves the access token, refresh token and expiry every other object
\* reads as they were, and the header dict of the class always holds the six
\* fixed headers.
C22_NoBleedAcrossInstances ==
    [][/\ \A i \in Instances :
            (actor' # i \/ actor' = "none")
              => LookupTok(class_attrs', instances', i)
                   = LookupTok(class_attrs, instances, i)
       /\ class_attrs'._required_headers = class_attrs._required_headers
       /\ CarriesFixedHeaders(class_attrs'._required_headers)
       /\ Cardinality(class_attrs'._required_headers) = 6]_vars

\* Both objects are built and hold different tokens after a refresh on one
\* of them.
C22_Witness ==
    /\ \A i \in Instances : instances[i].built /\ instances[i].own = AttrNames
    /\ instances["auth1"].tok.access_token = "tokA"
    /\ instances["auth2"].tok.access_token = "tokB"
    /\ instances["auth1"].tok.exp_date # instances["auth2"].tok.exp_date
    /\ actor = "auth2"
    /\ now > 0

\* A refresh answer that makes the refresh raise before it assigns a field.
FailsBeforeAssigning(response) ==
    \/ ~response.reached
    \/ ~response.json
    \/ response.accessToken = Missing

\* C23: a request whose refresh fails before any token field is assigned
\* leaves the three fields as they were and is not sent; the request after
\* it makes one new refresh POST carrying the same stored refresh token, and
\* when that refresh is answered with a complete body the request is sent
\* with the access token of that answer.
C23_FailedRefreshIsRetried ==
    [][/\ (/\ RequestStep
           /\ refreshCalls' = refreshCalls + 1
           /\ FailsBeforeAssigning(lastResp'))
          => /\ _access_token' = _access_token
             /\ _refresh_token' = _refresh_token
             /\ _exp_date' = _exp_date
             /\ lastReq'.events = <<"post_refresh">>
       /\ (/\ RequestStep
           /\ lastReq.events = <<"post_refresh">>
           /\ FailsBeforeAssigning(lastResp))
          => /\ refreshCalls' = refreshCalls + 1
             /\ loginCalls' = loginCalls
             /\ Occurrences(lastReq'.events, "post_refresh") = 1
             /\ lastPost'.url = "refresh_url"
             /\ lastPost'.refreshToken = lastPost.refreshToken
             /\ lastPost'.refreshToken = lastGood.refresh_token
             /\ (WellFormed(lastResp')
                   => /\ lastReq'.events
                          = <<"post_refresh", "set_header", "send">>
                      /\ lastReq'.header = Bearer(lastResp'.accessToken)
                      /\ _access_token' = lastResp'.accessToken)]_vars

\* The first request was not sent because its refresh failed, the second
\* refreshed again, with the refresh token of the login, and went out with
\* the access token it was granted.
C23_Witness ==
    /\ nreq = 2
    /\ loginCalls = 1
    /\ refreshCalls = 2
    /\ prevReq.outcome = "not_sent"
    /\ lastReq.events = <<"post_refresh", "set_header", "send">>
    /\ lastReq.header = Bearer(lastResp.accessToken)
    /\ lastReq.outcome = "ok"
    /\ lastPost.refreshToken # lastResp.refreshToken

====
